---- MODULE Spec2Model ----
(***************************************************************************)
(* BadgerDB B+Tree index over an integer attribute (btree.cpp / btree.h).  *)
(*                                                                         *)
(* A page is an array of 4-byte words; a leaf and a non-leaf node are the  *)
(* two struct views the code casts a page to, laid out as the C structs    *)
(* are.  The buffer manager is modelled by its contract only: readPage     *)
(* and allocPage pin, unPinPage unpins.                                    *)
(***************************************************************************)
EXTENDS Integers, Sequences, FiniteSets, TLC

(***************************************************************************)
(* Sizes.  PageSIZE is Page::SIZE scaled down from 8192 to 32 bytes; like  *)
(* 8192 it makes both node structs fill the page exactly, so that the      *)
(* first word after either struct is the first word after the page.        *)
(***************************************************************************)
PageSIZE == 32
sizeofInt == 4
sizeofPageId == 4
sizeofRecordId == 8

INTARRAYLEAFSIZE == (PageSIZE - sizeofPageId) \div (sizeofInt + sizeofRecordId)
INTARRAYNONLEAFSIZE ==
    (PageSIZE - sizeofInt - sizeofPageId) \div (sizeofInt + sizeofPageId)

PageWords == PageSIZE \div sizeofInt

\* Bounds of the exploration.
MaxKey == 3
MaxInserts == 6
\* Bound of the exploration of inserts in key order, which goes deeper.
MaxSortedInserts == 8
\* Bounds of the exploration of scans: keys, inserts before the scans, and
\* startScan calls (every scan that is started leaves its leaf pinned, so
\* the pin counts grow with the number of scans).
MaxScanKey == 2
MaxScanInserts == 3
MaxScans == 2
\* Bound of the exploration of descents: the number of inserts before the
\* scans that are positioned on the tree.
MaxDescentInserts == 5
\* Bound of the exploration of scans over the trees of the inserts in key
\* order: the number of startScan calls.
MaxSortedScans == 1
\* Bound of the exploration of the life cycle: the number of times the
\* index file is opened again after the index object was destroyed.
MaxOpens == 2

Keys == 1..MaxKey
ScanKeys == 1..MaxScanKey

\* A slot of a local array that has not been written.
UNINIT == 0 - 99
\* The choice that the out-of-bounds stack slot keeps the value written to it.
KEEP == 0 - 98

VARIABLES
    pages,           \* the index file: pages[p] is the word array of page p
    pinCnt,          \* buffer manager: pin count of page p
    badUnpin,        \* unPinPage was called on a page with pin count 0
    headerPageNum,
    rootPageNum,
    scanExecuting,
    nextEntry,
    currentPageNum,
    currentPageData, \* the page whose frame the pointer refers to; 0 is nullptr
    lowValInt,
    highValInt,
    lowOp,
    highOp,
    inserted,        \* history: the (key, rid) pairs passed to insertEntry
    last,            \* history: the last top-level call and how it ended
    outRid,          \* the caller's RecordId variable passed to scanNext
    scanLog,         \* history: the scan in progress, as the caller saw it
    scans,           \* history: the number of startScan calls
    crashed,         \* the process ran out of stack
    file,            \* the index file of the object; "nullptr" once destroyed
    disk,            \* the pages of the index file as persisted
    dirty,           \* buffer manager: the pages whose dirty bit is set
    attrTypeParm,    \* history: attrType of the last constructor call
    opens,           \* history: the number of times the file was reopened
    scanAtClose      \* history: what a full-range scan read at destruction

vars == <<pages, pinCnt, badUnpin, headerPageNum, rootPageNum, scanExecuting,
          nextEntry, currentPageNum, currentPageData, lowValInt, highValInt,
          lowOp, highOp, inserted, last, outRid, scanLog, scans, crashed,
          file, disk, dirty, attrTypeParm, opens, scanAtClose>>

fileVars == <<file, disk, attrTypeParm, opens, scanAtClose>>

scanVars == <<scanExecuting, nextEntry, currentPageNum, currentPageData,
              lowValInt, highValInt, lowOp, highOp, outRid, scanLog, scans>>

-----------------------------------------------------------------------------
(* Struct layouts, as word offsets into a page.                            *)

\* LeafNodeInt: level, keyArray[L], ridArray[L], rightSibPageNo.
LeafKeyOff(i) == 1 + i
LeafRidPageOff(i) == 1 + INTARRAYLEAFSIZE + 2 * i
LeafRidSlotOff(i) == 1 + INTARRAYLEAFSIZE + 2 * i + 1
LeafSibOff == 1 + 3 * INTARRAYLEAFSIZE

\* NonLeafNodeInt: level, keyArray[M], pageNoArray[M+1].
NonLeafKeyOff(i) == 1 + i
NonLeafPidOff(i) == 1 + INTARRAYNONLEAFSIZE + i

\* IndexMetaInfo: relationName[20], attrByteOffset, attrType, rootPageNo.
MetaRootOff == (20 \div sizeofInt) + 2

Word(pw, off) == pw[off + 1]
SetWord(pw, off, v) == [pw EXCEPT ![off + 1] = v]

Level(pw) == Word(pw, 0)
LeafKey(pw, i) == Word(pw, LeafKeyOff(i))
LeafRidPage(pw, i) == Word(pw, LeafRidPageOff(i))
LeafRid(pw, i) ==
    [page_number |-> Word(pw, LeafRidPageOff(i)),
     slot_number |-> Word(pw, LeafRidSlotOff(i))]
SetLeafEntry(pw, i, key, rid) ==
    SetWord(SetWord(SetWord(pw, LeafKeyOff(i), key),
                    LeafRidPageOff(i), rid.page_number),
            LeafRidSlotOff(i), rid.slot_number)
RightSib(pw) == Word(pw, LeafSibOff)
NonLeafKey(pw, i) == Word(pw, NonLeafKeyOff(i))
NonLeafPid(pw, i) == Word(pw, NonLeafPidOff(i))

ZeroPage == [o \in 1..PageWords |-> 0]

-----------------------------------------------------------------------------
(* Buffer manager contract, on a memory m = [pg, pin, bad, dirty].         *)

ValidPage(m, p) == p \in 1..Len(m.pg)

ReadPage(m, p) == [m EXCEPT !.pin[p] = @ + 1]

\* A number that is no page of the file is pinned by nobody.
UnPinPage(m, p) ==
    IF ~ValidPage(m, p) THEN [m EXCEPT !.bad = TRUE]
    ELSE IF m.pin[p] = 0 THEN [m EXCEPT !.bad = TRUE]
    ELSE [m EXCEPT !.pin[p] = @ - 1]

\* unPinPage(file, p, true): the page is written to the file when it
\* leaves the pool.
UnPinPageDirty(m, p) ==
    IF ~ValidPage(m, p) THEN UnPinPage(m, p)
    ELSE IF m.pin[p] = 0 THEN UnPinPage(m, p)
    ELSE [UnPinPage(m, p) EXCEPT !.dirty = @ \cup {p}]

\* flushFile on a file whose persisted pages are dk: the dirty pages are
\* written, and every page of the file leaves the pool, so that what is
\* read afterwards is what the file holds.
FlushFile(m, dk) ==
    LET written ==
            [p \in 1..Len(m.pg) |->
                IF p \in m.dirty THEN m.pg[p]
                ELSE IF p <= Len(dk) THEN dk[p] ELSE ZeroPage]
    IN  [m |-> [m EXCEPT !.pg = written, !.dirty = {}], disk |-> written]

\* allocPage: a fresh page at the end of the file, pinned.
AllocPage(m) ==
    [m EXCEPT !.pg = Append(@, ZeroPage), !.pin = Append(@, 1)]

WritePage(m, p, pw) == [m EXCEPT !.pg[p] = pw]

allocNonLeaf(m) == AllocPage(m)

allocLeaf(m) ==
    LET m1 == AllocPage(m)
        pid == Len(m1.pg)
    IN  WritePage(m1, pid, SetWord(SetWord(ZeroPage, LeafSibOff, 0), 0, -1))

-----------------------------------------------------------------------------
(* Leaf insert and leaf split.                                             *)

\* What an insert step hands back: the memory, whether the node split, and
\* the out-parameters midKey / newPid (meaningful only after a split).
Ret(m, split, midKey, newPid, exc) ==
    [m |-> m, split |-> split, midKey |-> midKey, newPid |-> newPid,
     exc |-> exc]

\* while(node->ridArray[next].page_number != 0 && next < L) next++;
\* at next = L the read is of the word after ridArray, rightSibPageNo.
RECURSIVE LeafNext(_, _)
LeafNext(pw, next) ==
    IF Word(pw, LeafRidPageOff(next)) # 0 /\ next < INTARRAYLEAFSIZE
    THEN LeafNext(pw, next + 1)
    ELSE next

\* A search that stops at the first key equal to the key as well.
RECURSIVE LeafInsertIndexAtEqual(_, _, _)
LeafInsertIndexAtEqual(pw, key, i) ==
    IF i >= INTARRAYLEAFSIZE THEN i
    ELSE IF LeafRidPage(pw, i) = 0 \/ LeafKey(pw, i) >= key THEN i
    ELSE LeafInsertIndexAtEqual(pw, key, i + 1)

\* The smallest i whose slot is empty or whose key is greater than key;
\* INTARRAYLEAFSIZE when the loop runs off the array.
RECURSIVE LeafInsertIndex(_, _, _)
LeafInsertIndex(pw, key, i) ==
    IF i >= INTARRAYLEAFSIZE THEN i
    ELSE IF LeafRidPage(pw, i) = 0 \/ LeafKey(pw, i) > key THEN i
    ELSE LeafInsertIndex(pw, key, i + 1)

\* Move the entries j-1 to j for j = L-1 down to i+1, then write slot i.
RECURSIVE LeafShift(_, _, _)
LeafShift(pw, i, j) ==
    IF j > i
    THEN LeafShift(SetLeafEntry(pw, j, LeafKey(pw, j - 1), LeafRid(pw, j - 1)),
                   i, j - 1)
    ELSE pw

\* LeafPlace with the search for the sorted position left out: the entry goes
\* to the first free slot.
LeafPlaceAtFirstFree(pw, key, rid) ==
    SetLeafEntry(pw, LeafNext(pw, 0), key, rid)

\* The branch of insertToLeaf for a leaf with a free slot.
LeafPlace(pw, key, rid) ==
    IF LeafRidPage(pw, 0) = 0 THEN SetLeafEntry(pw, 0, key, rid)
    ELSE LET i == LeafInsertIndex(pw, key, 0)
         IN  IF i < INTARRAYLEAFSIZE
             THEN SetLeafEntry(LeafShift(pw, i, INTARRAYLEAFSIZE - 1),
                               i, key, rid)
             ELSE pw

\* The merge loop of splitLeafNode: t = [k, r] are tempKey and tempRid.
RECURSIVE LeafMerge(_, _, _, _, _, _)
LeafMerge(pw, key, rid, i, j, t) ==
    IF i > INTARRAYLEAFSIZE THEN t
    ELSE IF j = INTARRAYLEAFSIZE \/ LeafRidPage(pw, j) = 0
    THEN [k |-> [t.k EXCEPT ![j] = key], r |-> [t.r EXCEPT ![j] = rid]]
    ELSE LET ins == (j = i /\ key < LeafKey(pw, i))
             i2 == IF ins THEN i + 1 ELSE i
             t1 == IF ins
                   THEN [k |-> [t.k EXCEPT ![i] = key],
                         r |-> [t.r EXCEPT ![i] = rid]]
                   ELSE t
             t2 == [k |-> [t1.k EXCEPT ![i2] = LeafKey(pw, j)],
                    r |-> [t1.r EXCEPT ![i2] = LeafRid(pw, j)]]
         IN  LeafMerge(pw, key, rid, i2 + 1, j + 1, t2)

LeafTemp(pw, key, rid) ==
    LeafMerge(pw, key, rid, 0, 0,
              [k |-> [x \in 0..INTARRAYLEAFSIZE |-> UNINIT],
               r |-> [x \in 0..INTARRAYLEAFSIZE |->
                         [page_number |-> UNINIT, slot_number |-> UNINIT]]])

\* The split loop, i = L/2 .. L: vacate slot i of the old node (only the
\* page number of the rid is cleared) and copy temp[i] to the new node.
RECURSIVE LeafDistribute(_, _, _, _)
LeafDistribute(old, new, t, i) ==
    IF i > INTARRAYLEAFSIZE THEN <<old, new>>
    ELSE LeafDistribute(
            IF i < INTARRAYLEAFSIZE
            THEN SetWord(old, LeafRidPageOff(i), 0) ELSE old,
            SetLeafEntry(new, i - INTARRAYLEAFSIZE \div 2, t.k[i], t.r[i]),
            t, i + 1)

splitLeafNode(m, key, rid, pid) ==
    LET m1 == ReadPage(m, pid)
        t == LeafTemp(m1.pg[pid], key, rid)
        m2 == allocLeaf(m1)
        newPid == Len(m2.pg)
        d == LeafDistribute(m2.pg[pid], m2.pg[newPid], t,
                            INTARRAYLEAFSIZE \div 2)
        newNode == SetWord(d[2], LeafSibOff, RightSib(d[1]))
        node == SetWord(d[1], LeafSibOff, newPid)
        m3 == WritePage(WritePage(m2, pid, node), newPid, newNode)
    IN  Ret(UnPinPageDirty(UnPinPageDirty(m3, pid), newPid), TRUE,
            t.k[INTARRAYLEAFSIZE \div 2], newPid, "none")

insertToLeaf(m, key, rid, pid) ==
    LET m1 == ReadPage(m, pid)
        pw == m1.pg[pid]
    IN  IF LeafNext(pw, 0) = INTARRAYLEAFSIZE
        THEN splitLeafNode(UnPinPageDirty(m1, pid), key, rid, pid)
        ELSE Ret(UnPinPageDirty(WritePage(m1, pid, LeafPlace(pw, key, rid)),
                                pid),
                 FALSE, UNINIT, UNINIT, "none")

-----------------------------------------------------------------------------
(* Non-leaf search, insert and split.                                      *)

\* while(pageNoArray[idx+1] != 0 && key > keyArray[idx] && idx < M) idx++;
\* at idx = M the first two operands read past the arrays, and whatever they
\* read the third operand ends the loop, so the index returned is the same.
RECURSIVE NonLeafIndexFrom(_, _, _)
\* A search loop that passes the keys equal to the key as well.
RECURSIVE NonLeafIndexPastEqual(_, _, _)
NonLeafIndexPastEqual(pw, key, idx) ==
    IF idx < INTARRAYNONLEAFSIZE
       /\ NonLeafPid(pw, idx + 1) # 0 /\ key >= NonLeafKey(pw, idx)
    THEN NonLeafIndexPastEqual(pw, key, idx + 1)
    ELSE idx

NonLeafIndexFrom(pw, key, idx) ==
    IF idx < INTARRAYNONLEAFSIZE
       /\ NonLeafPid(pw, idx + 1) # 0 /\ key > NonLeafKey(pw, idx)
    THEN NonLeafIndexFrom(pw, key, idx + 1)
    ELSE idx

findNonLeafIndex(pw, key) == NonLeafIndexFrom(pw, key, 0)

\* while(i < M && pageNoArray[i+1] != 0 && keyArray[i] <= key) i++;
RECURSIVE NonLeafInsertIndex(_, _, _)
NonLeafInsertIndex(pw, key, i) ==
    IF i < INTARRAYNONLEAFSIZE
       /\ NonLeafPid(pw, i + 1) # 0 /\ NonLeafKey(pw, i) <= key
    THEN NonLeafInsertIndex(pw, key, i + 1)
    ELSE i

RECURSIVE NonLeafShift(_, _, _)
NonLeafShift(pw, i, j) ==
    IF j > i
    THEN NonLeafShift(
            SetWord(SetWord(pw, NonLeafKeyOff(j), NonLeafKey(pw, j - 1)),
                    NonLeafPidOff(j + 1), NonLeafPid(pw, j)),
            i, j - 1)
    ELSE pw

NonLeafPlace(pw, key, sonPid) ==
    LET i == NonLeafInsertIndex(pw, key, 0)
        sh == NonLeafShift(pw, i, INTARRAYNONLEAFSIZE - 1)
    IN  SetWord(SetWord(sh, NonLeafKeyOff(i), key),
                NonLeafPidOff(i + 1), sonPid)

\* The merge loop of splitNonLeafNode: t = [k, p] are tempKey and tempPid.
\* tempPid is declared with M+1 slots; slot M+1, which the loop writes, is
\* the word after the array.
RECURSIVE NonLeafMerge(_, _, _, _, _, _, _)
NonLeafMerge(pw, key, sonPid, pid, i, j, t) ==
    IF i > INTARRAYNONLEAFSIZE THEN t
    ELSE IF j = INTARRAYNONLEAFSIZE \/ NonLeafPid(pw, j + 1) = 0
    THEN [k |-> [t.k EXCEPT ![j] = key], p |-> [t.p EXCEPT ![j + 1] = pid]]
    ELSE LET ins == (j = i /\ key < NonLeafKey(pw, i))
             i2 == IF ins THEN i + 1 ELSE i
             t1 == IF ins
                   THEN [k |-> [t.k EXCEPT ![i] = key],
                         p |-> [t.p EXCEPT ![i + 1] = sonPid]]
                   ELSE t
             t2 == [k |-> [t1.k EXCEPT ![i2] = NonLeafKey(pw, j)],
                    p |-> [t1.p EXCEPT ![i2 + 1] = NonLeafPid(pw, j + 1)]]
         IN  NonLeafMerge(pw, key, sonPid, pid, i2 + 1, j + 1, t2)

NonLeafTemp(pw, key, sonPid, pid) ==
    NonLeafMerge(pw, key, sonPid, pid, 0, 0,
        [k |-> [x \in 0..INTARRAYNONLEAFSIZE |-> UNINIT],
         p |-> [x \in 0..(INTARRAYNONLEAFSIZE + 1) |->
                   IF x = 0 THEN NonLeafPid(pw, 0) ELSE UNINIT]])

\* The values a word the program does not own may hold: null, the number of
\* a page of the file, or a number that is no page of the file.
Garbage(m) == 0..(Len(m.pg) + 1)

\* A read of a local array slot: a slot never written holds g.
Local(v, g) == IF v = UNINIT THEN g ELSE v

\* A read of tempPid[i]: slot M+1 is outside the array, and holds what was
\* written to it (c = KEEP) or c.
TempPid(t, i, c, g) ==
    IF i = INTARRAYNONLEAFSIZE + 1 /\ c # KEEP THEN c ELSE Local(t.p[i], g)

\* node->pageNoArray[i] = 0.  Slot M+1 is outside the array: within the
\* page when the struct is smaller than the page, otherwise the first word
\* after the page, which is the first word of page victim (0: of no page
\* of this file).
ClearPid(m, pid, i, victim) ==
    IF NonLeafPidOff(i) < PageWords
    THEN WritePage(m, pid, SetWord(m.pg[pid], NonLeafPidOff(i), 0))
    ELSE IF victim = 0 THEN m
    ELSE WritePage(m, victim, SetWord(m.pg[victim], 0, 0))

\* The split loop, i = M/2+1 .. M+1.
RECURSIVE NonLeafDistribute(_, _, _, _, _, _, _, _)
NonLeafDistribute(m, pid, newPid, t, i, c, g, victim) ==
    IF i > INTARRAYNONLEAFSIZE + 1 THEN m
    ELSE LET h == INTARRAYNONLEAFSIZE \div 2
             m1 == ClearPid(m, pid, i, victim)
             n1 == SetWord(m1.pg[newPid], NonLeafPidOff(i - h - 1),
                           TempPid(t, i, c, g))
             n2 == IF i # INTARRAYNONLEAFSIZE + 1
                   THEN SetWord(n1, NonLeafKeyOff(i - h - 1), Local(t.k[i], g))
                   ELSE n1
         IN  NonLeafDistribute(WritePage(m1, newPid, n2), pid, newPid, t,
                               i + 1, c, g, victim)

\* One outcome of splitNonLeafNode, for the choices c, g and victim.
SplitNonLeafWith(m, key, sonPid, pid, t, c, g, victim) ==
    LET m1 == ReadPage(m, pid)
        midKey == Local(t.k[INTARRAYNONLEAFSIZE \div 2], g)
        m2 == allocNonLeaf(m1)
        newPid == Len(m2.pg)
        m3 == WritePage(m2, newPid,
                        SetWord(m2.pg[newPid], 0, Level(m2.pg[pid])))
        m4 == NonLeafDistribute(m3, pid, newPid, t,
                                INTARRAYNONLEAFSIZE \div 2 + 1, c, g, victim)
    IN  Ret(UnPinPageDirty(UnPinPageDirty(m4, newPid), pid), TRUE, midKey,
            newPid, "none")

splitNonLeafNode(m, key, sonPid, pid) ==
    LET t == NonLeafTemp(m.pg[pid], key, sonPid, pid)
        unwritten ==
            \/ \E x \in (INTARRAYNONLEAFSIZE \div 2)..INTARRAYNONLEAFSIZE :
                  t.k[x] = UNINIT
            \/ \E x \in (INTARRAYNONLEAFSIZE \div 2 + 1)
                          ..(INTARRAYNONLEAFSIZE + 1) : t.p[x] = UNINIT
    IN  { SplitNonLeafWith(m, key, sonPid, pid, t, c, g, victim) :
            c \in {KEEP} \cup Garbage(m),
            g \in (IF unwritten THEN Garbage(m) ELSE {0}),
            victim \in (0..(Len(m.pg) + 1)) \ {pid} }

insertToNonLeafNode(m, key, sonPid, pid) ==
    LET m1 == ReadPage(m, pid)
        pw == m1.pg[pid]
    IN  IF NonLeafPid(pw, INTARRAYNONLEAFSIZE) # 0
        THEN splitNonLeafNode(UnPinPageDirty(m1, pid), key, sonPid, pid)
        ELSE { Ret(UnPinPageDirty(
                      WritePage(m1, pid, NonLeafPlace(pw, key, sonPid)),
                      pid),
                   FALSE, UNINIT, UNINIT, "none") }

-----------------------------------------------------------------------------
(* insertNode, updateRootPageNo, insertEntry.                              *)

Raise(m, exc) == Ret(m, FALSE, UNINIT, UNINIT, exc)

\* path: the pages the recursion is in.  Nothing is written on the way
\* down, so reaching a page of the path again means the descent never ends:
\* the recursion runs out of stack.  readPage of a number that is no page
\* of the file throws InvalidPageException.
RECURSIVE insertNode(_, _, _, _, _)
insertNode(m, key, rid, pid, path) ==
    IF ~ValidPage(m, pid) THEN { Raise(m, "InvalidPage") }
    ELSE IF pid \in path THEN { Raise(m, "StackOverflow") }
    ELSE LET m1 == ReadPage(m, pid)
             pw == m1.pg[pid]
         IN  IF Level(pw) = -1
             THEN { insertToLeaf(UnPinPage(m1, pid), key, rid, pid) }
             ELSE LET idx == findNonLeafIndex(pw, key)
                      sonPid == NonLeafPid(pw, idx)
                      m2 == UnPinPageDirty(m1, pid)
                  IN  UNION { IF r.exc = "none" /\ r.split
                              THEN insertToNonLeafNode(r.m, r.midKey,
                                                       r.newPid, pid)
                              ELSE { r } :
                              r \in insertNode(m2, key, rid, sonPid,
                                               path \cup {pid}) }

\* An updateRootPageNo that leaves the header page as it is.
updateRootPageNoSkipped(m, header, root) == m

\* An updateRootPageNo that writes the header page and keeps it pinned.
updateRootPageNoPinned(m, header, root) ==
    LET m1 == ReadPage(m, header)
    IN  WritePage(m1, header, SetWord(m1.pg[header], MetaRootOff, root))

updateRootPageNo(m, header, root) ==
    LET m1 == ReadPage(m, header)
    IN  UnPinPageDirty(WritePage(m1, header,
                            SetWord(m1.pg[header], MetaRootOff, root)),
                  header)

\* The new root that insertEntry builds after the old root, pid, split.
GrowRoot(r, header, pid, level) ==
    LET m1 == allocNonLeaf(r.m)
        root == Len(m1.pg)
        pw == SetWord(SetWord(SetWord(SetWord(m1.pg[root], 0, level),
                                      NonLeafKeyOff(0), r.midKey),
                              NonLeafPidOff(0), pid),
                      NonLeafPidOff(1), r.newPid)
        m2 == UnPinPageDirty(WritePage(m1, root, pw), root)
    IN  [m |-> updateRootPageNo(m2, header, root), root |-> root,
         exc |-> "none"]

\* The outcomes of insertEntry: the memory, rootPageNum and the exception
\* that left the call, if any.
insertEntry(m, header, root, key, rid) ==
    LET pid == root
        m1 == ReadPage(m, pid)
        leaf == Level(m1.pg[pid]) = -1
        m2 == UnPinPageDirty(m1, pid)
        rs == IF leaf THEN { insertToLeaf(m2, key, rid, pid) }
              ELSE insertNode(m2, key, rid, root, {})
    IN  { IF r.exc # "none" THEN [m |-> r.m, root |-> root, exc |-> r.exc]
          ELSE IF r.split
               THEN GrowRoot(r, header, pid, IF leaf THEN 1 ELSE 0)
               ELSE [m |-> r.m, root |-> root, exc |-> "none"] : r \in rs }

-----------------------------------------------------------------------------
(* The index object.                                                       *)

Mem == [pg |-> pages, pin |-> pinCnt, bad |-> badUnpin, dirty |-> dirty]

NoRid == [page_number |-> 0, slot_number |-> 0]

\* The record of a call: what was called, the exception that left it
\* ("none": it returned), and for scanNext the key of the entry it read
\* and the caller's RecordId before the call.
CalledScanNext(res, key, before) ==
    [op |-> "scanNext", res |-> res, key |-> key, before |-> before]
Called(op, res) == [op |-> op, res |-> res, key |-> 0, before |-> NoRid]
NoScan == [active |-> FALSE]

\* enum Datatype.
INTEGER == 0
DOUBLE == 1
STRING_ == 2
Datatype == {INTEGER, DOUBLE, STRING_}

\* IndexMetaInfo: relationName[20], attrByteOffset, attrType, rootPageNo.
MetaOffsetOff == 20 \div sizeofInt
MetaTypeOff == (20 \div sizeofInt) + 1

\* What the constructor writes to the metadata page: the relation name
\* "R" padded with zero bytes to 20, attribute offset 0 and attrType.
SetMetaInfo(pw, attrType) ==
    [o \in 1..PageWords |->
        IF o = 1 THEN 82
        ELSE IF o <= MetaOffsetOff THEN 0
        ELSE IF o = MetaOffsetOff + 1 THEN 0
        ELSE IF o = MetaTypeOff + 1 THEN attrType
        ELSE pw[o]]

\* The metadata page the constructor writes for relation "R", attribute
\* offset 0, type INTEGER, root page 2.
MetaPage(root) ==
    [o \in 1..PageWords |->
        IF o = 1 THEN 82 ELSE IF o = MetaRootOff + 1 THEN root ELSE 0]

\* The constructor on a relation with no index file and no records: page 1
\* is the header, page 2 an empty root leaf, both unpinned again.
Init ==
    LET m0 == [pg |-> <<>>, pin |-> <<>>, bad |-> FALSE, dirty |-> {}]
        m1 == AllocPage(m0)
        m2 == allocLeaf(m1)
        m3 == UnPinPageDirty(
                 UnPinPageDirty(WritePage(m2, 1, MetaPage(2)), 1), 2)
        f == FlushFile(m3, <<>>)
    IN  /\ pages = f.m.pg
        /\ pinCnt = f.m.pin
        /\ badUnpin = f.m.bad
        /\ dirty = f.m.dirty
        /\ disk = f.disk
        /\ file = "R.0"
        /\ attrTypeParm = INTEGER
        /\ opens = 0
        /\ scanAtClose = [root |-> 0, read |-> {}]
        /\ headerPageNum = 1
        /\ rootPageNum = 2
        /\ scanExecuting = FALSE
        /\ nextEntry = -1
        /\ currentPageNum = 0
        /\ currentPageData = 0
        /\ lowValInt = 0
        /\ highValInt = 0
        /\ lowOp = "GTE"
        /\ highOp = "LTE"
        /\ inserted = <<>>
        /\ last = Called("BTreeIndex", "none")
        /\ outRid = NoRid
        /\ scanLog = NoScan
        /\ scans = 0
        /\ crashed = FALSE

\* insertEntry(&key, rid), rid being the next record of the relation.
InsertEntryOf(keys, bound) ==
    /\ ~crashed
    /\ file # "nullptr"
    /\ ~scanExecuting
    /\ Len(inserted) < bound
    /\ \E key \in keys :
         LET n == Len(inserted) + 1
             rid == [page_number |-> n, slot_number |-> n]
         IN  \E r \in insertEntry(Mem, headerPageNum, rootPageNum, key, rid) :
                /\ pages' = r.m.pg
                /\ pinCnt' = r.m.pin
                /\ badUnpin' = r.m.bad
                /\ dirty' = r.m.dirty
                /\ rootPageNum' = r.root
                /\ crashed' = (r.exc = "StackOverflow")
                /\ inserted' = Append(inserted, [key |-> key, rid |-> rid])
                /\ last' = Called("insertEntry", r.exc)
    /\ UNCHANGED <<headerPageNum, scanVars, fileVars>>

InsertEntry == InsertEntryOf(Keys, MaxInserts)

-----------------------------------------------------------------------------
(* Range scan.                                                             *)

\* enum Operator.
Operators == {"LT", "LTE", "GTE", "GT"}
\* The operators the calls are made with: the two a bound accepts and one
\* it does not.
LowOps == {"GT", "GTE", "LT"}
HighOps == {"LT", "LTE", "GT"}

\* recursiveScanPageId: the leaf the descent by lowValInt ends in (cur),
\* every page read on the way unpinned again.
RECURSIVE recursiveScanPageId(_, _, _, _)
recursiveScanPageId(m, cur, low, path) ==
    IF ~ValidPage(m, cur) THEN [m |-> m, cur |-> cur, exc |-> "InvalidPage"]
    ELSE IF cur \in path
    THEN [m |-> m, cur |-> cur, exc |-> "StackOverflow"]
    ELSE LET m1 == ReadPage(m, cur)
             pw == m1.pg[cur]
         IN  IF Level(pw) = -1
             THEN [m |-> UnPinPage(m1, cur), cur |-> cur, exc |-> "none"]
             ELSE recursiveScanPageId(
                     UnPinPage(m1, cur),
                     NonLeafPid(pw, findNonLeafIndex(pw, low)),
                     low, path \cup {cur})

\* The positioning loop of startScan over the slots of the leaf.
RECURSIVE ScanPosition(_, _, _, _, _, _)
ScanPosition(pw, i, low, lop, high, hop) ==
    IF i >= INTARRAYLEAFSIZE THEN [kind |-> "end", idx |-> i]
    ELSE IF LeafRidPage(pw, i) = 0 THEN [kind |-> "end", idx |-> i]
    ELSE LET key == LeafKey(pw, i)
         IN  IF lop = "GT" /\ key > low THEN [kind |-> "found", idx |-> i]
             ELSE IF lop = "GTE" /\ key >= low
             THEN [kind |-> "found", idx |-> i]
             ELSE IF hop = "LT" /\ key > high
             THEN [kind |-> "nokey", idx |-> i]
             ELSE IF hop = "LTE" /\ key >= high
             THEN [kind |-> "nokey", idx |-> i]
             ELSE ScanPosition(pw, i + 1, low, lop, high, hop)

\* The scan members after a call: active is scanExecuting.
ScanState(m, active, entry, cur, data, exc) ==
    [m |-> m, active |-> active, entry |-> entry, cur |-> cur,
     data |-> data, exc |-> exc]

\* Argument checks that look at the range before the operators.
startScanCheckRangeFirst(low, lop, high, hop) ==
    IF low > high THEN "BadScanrange"
    ELSE IF lop # "GT" /\ lop # "GTE" THEN "BadOpcodes"
    ELSE IF hop # "LT" /\ hop # "LTE" THEN "BadOpcodes"
    ELSE "none"

\* The argument checks of startScan, first the operators, then the range:
\* the exception thrown, "none" if the arguments pass.
startScanCheck(low, lop, high, hop) ==
    IF lop # "GT" /\ lop # "GTE" THEN "BadOpcodes"
    ELSE IF hop # "LT" /\ hop # "LTE" THEN "BadOpcodes"
    ELSE IF low > high THEN "BadScanrange"
    ELSE "none"

\* startScan after its argument checks.
startScanBody(m, root, active, entry, cur, data, low, lop, high, hop) ==
    LET \* if(scanExecuting) endScan();
        entry1 == IF active THEN -1 ELSE entry
        d == recursiveScanPageId(m, root, low, {})
    IN  IF d.exc # "none"
        THEN ScanState(d.m, FALSE, entry1, d.cur,
                       IF ValidPage(m, d.cur) THEN d.cur
                       ELSE IF root = d.cur THEN (IF active THEN 0 ELSE data)
                       ELSE d.cur, d.exc)
        ELSE
        LET m1 == ReadPage(d.m, d.cur)
            pw == m1.pg[d.cur]
            pos == ScanPosition(pw, 0, low, lop, high, hop)
        IN  IF pos.kind = "found"
            THEN ScanState(m1, TRUE, pos.idx, d.cur, d.cur, "none")
            ELSE IF pos.kind = "nokey"
            THEN ScanState(UnPinPage(m1, d.cur), FALSE, entry1, d.cur, d.cur,
                           "NoSuchKeyFound")
            ELSE IF RightSib(pw) = 0
            THEN ScanState(UnPinPage(m1, d.cur), FALSE, entry1, d.cur, d.cur,
                           "NoSuchKeyFound")
            ELSE LET nextPage == RightSib(pw)
                     m2 == UnPinPage(m1, d.cur)
                 IN  IF ValidPage(m2, nextPage)
                     THEN ScanState(ReadPage(m2, nextPage), TRUE, 0, nextPage,
                                    nextPage, "none")
                     ELSE ScanState(m2, FALSE, entry1, nextPage, d.cur,
                                    "InvalidPage")

\* The keys of `inserted` a scan with these bounds is to deliver.
InRange(key, low, lop, high, hop) ==
    /\ IF lop = "GT" THEN key > low ELSE key >= low
    /\ IF hop = "LT" THEN key < high ELSE key <= high

\* startScan with its values drawn from vals and its operators from lops
\* and hops, at most bound times.
StartScanOf(vals, lops, hops, bound) ==
    /\ ~crashed
    /\ file # "nullptr"
    /\ scans < bound
    /\ scans' = scans + 1
    /\ \E low \in vals, high \in vals, lop \in lops, hop \in hops :
         /\ lowValInt' = low
         /\ highValInt' = high
         /\ lowOp' = lop
         /\ highOp' = hop
         /\ IF startScanCheck(low, lop, high, hop) # "none"
            THEN /\ last' = Called("startScan",
                                   startScanCheck(low, lop, high, hop))
                 /\ UNCHANGED <<pages, pinCnt, badUnpin, scanExecuting,
                                nextEntry, currentPageNum, currentPageData,
                                scanLog, crashed>>
            ELSE LET r == startScanBody(Mem, rootPageNum, scanExecuting,
                                        nextEntry, currentPageNum,
                                        currentPageData, low, lop, high, hop)
                 IN  /\ pages' = r.m.pg
                     /\ pinCnt' = r.m.pin
                     /\ badUnpin' = r.m.bad
                     /\ scanExecuting' = r.active
                     /\ nextEntry' = r.entry
                     /\ currentPageNum' = r.cur
                     /\ currentPageData' = r.data
                     /\ crashed' = (r.exc = "StackOverflow")
                     /\ last' = Called("startScan", r.exc)
                     /\ scanLog' =
                          IF r.exc = "none"
                          THEN [active |-> TRUE, low |-> low, lop |-> lop,
                                high |-> high, hop |-> hop, got |-> <<>>,
                                done |-> FALSE]
                          ELSE NoScan
    /\ UNCHANGED <<headerPageNum, rootPageNum, inserted, outRid, dirty,
                   fileVars>>

StartScan == StartScanOf(ScanKeys, LowOps, HighOps, MaxScans)

\* An endScan that resets the scan members whether or not a scan executes.
EndScanUnchecked ==
    /\ ~crashed
    /\ file # "nullptr"
    /\ scanExecuting' = FALSE
    /\ nextEntry' = -1
    /\ currentPageData' = 0
    /\ currentPageNum' = 0
    /\ scanLog' = NoScan
    /\ last' = Called("endScan", "none")
    /\ UNCHANGED <<pages, pinCnt, badUnpin, headerPageNum, rootPageNum,
                   lowValInt, highValInt, lowOp, highOp, inserted, outRid,
                   scans, crashed, dirty, file, disk, attrTypeParm, opens,
                   scanAtClose>>

EndScan ==
    /\ ~crashed
    /\ file # "nullptr"
    /\ IF ~scanExecuting
       THEN /\ last' = Called("endScan", "ScanNotInitialized")
            /\ UNCHANGED <<scanExecuting, nextEntry, currentPageData,
                           currentPageNum, scanLog>>
       ELSE /\ scanExecuting' = FALSE
            /\ nextEntry' = -1
            /\ currentPageData' = 0
            /\ currentPageNum' = 0
            /\ scanLog' = NoScan
            /\ last' = Called("endScan", "none")
    /\ UNCHANGED <<pages, pinCnt, badUnpin, headerPageNum, rootPageNum,
                   lowValInt, highValInt, lowOp, highOp, inserted, outRid,
                   scans, crashed, dirty, fileVars>>

\* The words a frame or a word outside the page may hold once the program
\* no longer owns it: zero, or a value above every key.
GarbageWords == {0, MaxScanKey + 1}

\* What currentPageData points at.  While the page is pinned its frame
\* holds the page; once it is unpinned the frame may have been given to
\* other data.
Frames(m, data) ==
    {m.pg[data]} \cup
    (IF m.pin[data] > 0 THEN {}
     ELSE {[o \in 1..PageWords |-> w] : w \in GarbageWords})

\* A read through currentPageData at a word offset; g is what a word after
\* the end of the frame holds.
FrameWord(fw, off, g) == IF off < PageWords THEN fw[off + 1] ELSE g

\* scanNext with a scan executing: fw is the frame currentPageData points
\* at.  out is what is assigned to the caller's outRid.
scanNext(m, fw, g, entry, cur, data, high, hop) ==
    LET rid == [page_number |-> FrameWord(fw, LeafRidPageOff(entry), g),
                slot_number |-> FrameWord(fw, LeafRidSlotOff(entry), g)]
        val == FrameWord(fw, LeafKeyOff(entry), g)
        e1 == entry + 1
        Out(m1, e, c, d, exc) ==
            [m |-> m1, entry |-> e, cur |-> c, data |-> d, out |-> rid,
             val |-> val, exc |-> exc]
    IN  IF val > high \/ (val = high /\ hop = "LT")
        THEN Out(UnPinPage(m, cur), entry, cur, data, "IndexScanCompleted")
        ELSE IF e1 = INTARRAYLEAFSIZE
                \/ FrameWord(fw, LeafRidPageOff(e1), g) = 0
        THEN IF FrameWord(fw, LeafSibOff, g) = 0
             THEN Out(UnPinPage(m, cur), e1, cur, data, "IndexScanCompleted")
             ELSE LET nextPageNum == FrameWord(fw, LeafSibOff, g)
                      m1 == UnPinPage(m, cur)
                  IN  IF ValidPage(m1, nextPageNum)
                      THEN Out(ReadPage(m1, nextPageNum), 0, nextPageNum,
                               nextPageNum, "none")
                      ELSE Out(m1, e1, nextPageNum, data, "InvalidPage")
        ELSE Out(m, e1, cur, data, "none")

\* nextEntry grows without limit once scanNext is called again after the end
\* of the chain; the calls are followed up to the first slot after the leaf.
ScanNext ==
    /\ ~crashed
    /\ file # "nullptr"
    /\ scanExecuting => nextEntry <= INTARRAYLEAFSIZE
    /\ IF ~scanExecuting
       THEN /\ last' = CalledScanNext("ScanNotInitialized", 0, outRid)
            /\ UNCHANGED <<pages, pinCnt, badUnpin, nextEntry, currentPageNum,
                           currentPageData, outRid, scanLog>>
       ELSE \E fw \in Frames(Mem, currentPageData),
               g \in (IF LeafRidPageOff(nextEntry + 1) < PageWords
                      THEN {0} ELSE GarbageWords) :
              LET r == scanNext(Mem, fw, g, nextEntry, currentPageNum,
                                currentPageData, highValInt, highOp)
              IN  /\ pages' = r.m.pg
                  /\ pinCnt' = r.m.pin
                  /\ badUnpin' = r.m.bad
                  /\ nextEntry' = r.entry
                  /\ currentPageNum' = r.cur
                  /\ currentPageData' = r.data
                  /\ outRid' = r.out
                  /\ last' = CalledScanNext(r.exc, r.val, outRid)
                  /\ scanLog' =
                       IF ~scanLog.active \/ scanLog.done THEN scanLog
                       ELSE IF r.exc = "none"
                       THEN [scanLog EXCEPT !.got = Append(@, r.out)]
                       ELSE IF r.exc = "IndexScanCompleted"
                       THEN [scanLog EXCEPT !.done = TRUE]
                       ELSE scanLog
    /\ UNCHANGED <<headerPageNum, rootPageNum, scanExecuting, lowValInt,
                   highValInt, lowOp, highOp, inserted, scans, crashed,
                   dirty, fileVars>>

-----------------------------------------------------------------------------
(* Destruction of the index object and construction on the existing file.  *)

\* The number of occupied slots of a leaf: the slots before the first empty
\* one, which is where every loop over a leaf stops.
RECURSIVE LeafCountFrom(_, _)
LeafCountFrom(pw, i) ==
    IF i < INTARRAYLEAFSIZE /\ LeafRidPage(pw, i) # 0
    THEN LeafCountFrom(pw, i + 1)
    ELSE i

LeafEntries(pw) ==
    [i \in 1..LeafCountFrom(pw, 0) |->
        [key |-> LeafKey(pw, i - 1), rid |-> LeafRid(pw, i - 1)]]

\* The entries a scan over all keys reads in the file pg with root page
\* root: the descent of recursiveScanPageId for a value below every key,
\* then the leaves along rightSibPageNo.
RECURSIVE ScanChainFrom(_, _, _)
ScanChainFrom(pg, p, fuel) ==
    IF p \notin 1..Len(pg) \/ fuel = 0 THEN {}
    ELSE { LeafEntries(pg[p])[i] : i \in 1..LeafCountFrom(pg[p], 0) }
         \cup ScanChainFrom(pg, RightSib(pg[p]), fuel - 1)

FullScan(pg, root) ==
    LET m == [pg |-> pg, pin |-> [p \in 1..Len(pg) |-> 0], bad |-> FALSE,
              dirty |-> {}]
        d == recursiveScanPageId(m, root, 0, {})
    IN  IF d.exc # "none" THEN { d.exc }
        ELSE ScanChainFrom(pg, d.cur, Len(pg))

\* ~BTreeIndex.
Destructor ==
    /\ ~crashed
    /\ file # "nullptr"
    /\ LET f == FlushFile(Mem, disk)
       IN  /\ pages' = f.m.pg
           /\ dirty' = f.m.dirty
           /\ disk' = f.disk
    /\ scanExecuting' = FALSE
    /\ file' = "nullptr"
    /\ nextEntry' = -1
    /\ headerPageNum' = 0
    /\ rootPageNum' = 0
    /\ currentPageNum' = 0
    /\ currentPageData' = 0
    /\ scanLog' = NoScan
    /\ scanAtClose' = [root |-> rootPageNum,
                       read |-> FullScan(pages, rootPageNum)]
    /\ last' = Called("~BTreeIndex", "none")
    /\ UNCHANGED <<pinCnt, badUnpin, lowValInt, highValInt, lowOp, highOp,
                   inserted, outRid, scans, crashed, attrTypeParm, opens>>

\* BTreeIndex("R", ..., 0, attrType) when the index file R.0 exists.
BTreeIndexExisting ==
    /\ ~crashed
    /\ file = "nullptr"
    /\ opens < MaxOpens
    /\ \E attrType \in Datatype :
         LET header == 1
             m1 == ReadPage(Mem, header)
             meta == SetMetaInfo(m1.pg[header], attrType)
             m2 == UnPinPage(WritePage(m1, header, meta), header)
         IN  /\ pages' = m2.pg
             /\ pinCnt' = m2.pin
             /\ badUnpin' = m2.bad
             /\ dirty' = m2.dirty
             /\ headerPageNum' = header
             /\ rootPageNum' = Word(meta, MetaRootOff)
             /\ attrTypeParm' = attrType
    /\ scanExecuting' = FALSE
    /\ file' = "R.0"
    /\ opens' = opens + 1
    /\ last' = Called("BTreeIndex", "none")
    /\ UNCHANGED <<nextEntry, currentPageNum, currentPageData, lowValInt,
                   highValInt, lowOp, highOp, inserted, outRid, scanLog,
                   scans, crashed, disk, scanAtClose>>

Next == InsertEntry

Spec == Init /\ [][Next]_vars

InsertEntryBeforeScan == InsertEntryOf(ScanKeys, MaxScanInserts)

NextScan == InsertEntryBeforeScan \/ StartScan \/ ScanNext \/ EndScan

SpecScan == Init /\ [][NextScan]_vars

\* insertEntry for the records of a relation that is stored in key order.
InsertEntrySorted ==
    InsertEntryOf({ k \in Keys :
                      \A i \in 1..Len(inserted) : inserted[i].key <= k },
                  MaxSortedInserts)

NextSorted == InsertEntrySorted

SpecSorted == Init /\ [][NextSorted]_vars

\* Inserts, and scans started on the tree they built.
InsertEntryBeforeDescent == InsertEntryOf(Keys, MaxDescentInserts)

NextDescent == InsertEntryBeforeDescent \/ StartScan

SpecDescent == Init /\ [][NextDescent]_vars

\* Inserts in key order, then scans between the least and the greatest key
\* over the tree they built.  A scan is followed until it raises
\* IndexScanCompleted or has returned one record more than there are
\* entries.
StartScanSorted == StartScanOf({1, MaxKey}, {"GTE"}, {"LTE"}, MaxSortedScans)

ScanNextSorted ==
    /\ scanLog.active =>
          ~scanLog.done /\ Len(scanLog.got) <= Len(inserted)
    /\ ScanNext

NextSortedScan == InsertEntrySorted \/ StartScanSorted \/ ScanNextSorted

SpecSortedScan == Init /\ [][NextSortedScan]_vars

\* Inserts, with the index destroyed and constructed again in between.
NextReopen == InsertEntry \/ Destructor \/ BTreeIndexExisting

SpecReopen == Init /\ [][NextReopen]_vars

\* Inserts and scans, up to the destruction of the index.
NextTeardown ==
    InsertEntryBeforeScan \/ StartScan \/ ScanNext \/ EndScan \/ Destructor

SpecTeardown == Init /\ [][NextTeardown]_vars

-----------------------------------------------------------------------------
(* The tree as the code walks it.                                          *)

IsPage(p) == p \in 1..Len(pages)
IsLeafPage(p) == IsPage(p) /\ Level(pages[p]) = -1
IsNonLeafPage(p) == IsPage(p) /\ p # headerPageNum /\ Level(pages[p]) # -1

\* The number of keys of a non-leaf node: slot i is occupied when
\* pageNoArray[i+1] is not null.
RECURSIVE NonLeafCountFrom(_, _)
NonLeafCountFrom(pw, i) ==
    IF i < INTARRAYNONLEAFSIZE /\ NonLeafPid(pw, i + 1) # 0
    THEN NonLeafCountFrom(pw, i + 1)
    ELSE i

Children(p) ==
    IF IsNonLeafPage(p)
    THEN { NonLeafPid(pages[p], i) : i \in 0..NonLeafCountFrom(pages[p], 0) }
    ELSE {}

\* The pages at depth d below the pages of S.
RECURSIVE Below(_, _)
Below(S, d) ==
    IF d = 0 THEN S
    ELSE Below({ c \in UNION { Children(p) : p \in S } : IsPage(c) }, d - 1)

\* The pages reachable from p by child pointers, p included.
Subtree(p) == UNION { Below({p}, d) : d \in 0..Len(pages) }

SubtreeKeys(p) ==
    UNION { { LeafEntries(pages[q])[i].key :
                i \in 1..LeafCountFrom(pages[q], 0) } :
            q \in { r \in Subtree(p) : IsLeafPage(r) } }

\* The depths at which a leaf is reached from the root.
LeafDepths ==
    { d \in 0..Len(pages) : \E p \in Below({rootPageNum}, d) : IsLeafPage(p) }

\* The leaf the leftmost child pointers lead to from the root (0: none).
RECURSIVE LeftmostFrom(_, _)
LeftmostFrom(p, fuel) ==
    IF ~IsPage(p) THEN 0
    ELSE IF IsLeafPage(p) THEN p
    ELSE IF fuel = 0 THEN 0
    ELSE LeftmostFrom(NonLeafPid(pages[p], 0), fuel - 1)

LeftmostLeaf == LeftmostFrom(rootPageNum, Len(pages))

\* The entries met following rightSibPageNo from leaf p.
RECURSIVE ChainFrom(_, _)
ChainFrom(p, fuel) ==
    IF ~IsPage(p) \/ fuel = 0 THEN <<>>
    ELSE LeafEntries(pages[p]) \o ChainFrom(RightSib(pages[p]), fuel - 1)

Chain == ChainFrom(LeftmostLeaf, Len(pages))

PinnedTotal ==
    LET RECURSIVE Sum(_)
        Sum(p) == IF p = 0 THEN 0 ELSE pinCnt[p] + Sum(p - 1)
    IN  Sum(Len(pinCnt))

-----------------------------------------------------------------------------
(* Claims.                                                                 *)

\* C1: after any sequence of insertEntry calls, following rightSibPageNo
\* from the leftmost leaf visits every inserted (key, rid) pair exactly
\* once, with the keys in non-decreasing order.
C1_LeafChainTotality ==
    /\ Len(Chain) = Len(inserted)
    /\ \A i \in 1..Len(inserted) : \E j \in 1..Len(Chain) :
          Chain[j] = inserted[i]
    /\ \A j \in 1..(Len(Chain) - 1) : Chain[j].key <= Chain[j + 1].key

DistinctKeys ==
    \A i, j \in 1..Len(inserted) :
       inserted[i].key = inserted[j].key => i = j

\* C3: for every non-leaf node reachable from the root and every occupied
\* slot i, every key reachable through pageNoArray[i] is less than
\* keyArray[i] and every key reachable through pageNoArray[i+1] is greater
\* than or equal to keyArray[i].  Stated for inserts of pairwise distinct
\* keys, where no key can equal a separator to its right.
C3_SeparatorCorrectness ==
    DistinctKeys =>
    \A n \in { q \in Subtree(rootPageNum) : IsNonLeafPage(q) } :
       \A i \in 0..(NonLeafCountFrom(pages[n], 0) - 1) :
          /\ \A k \in SubtreeKeys(NonLeafPid(pages[n], i)) :
                k < NonLeafKey(pages[n], i)
          /\ \A k \in SubtreeKeys(NonLeafPid(pages[n], i + 1)) :
                k >= NonLeafKey(pages[n], i)

\* C4: every leaf reachable from the root by child pointers lies at the
\* same depth.
C4_HeightUniform == Cardinality(LeafDepths) <= 1

\* C5: in every leaf the occupied slots form a left-compacted prefix and
\* their keys are non-decreasing.
C5_LeafSortedCompact ==
    \A p \in 1..Len(pages) :
       IsLeafPage(p) =>
          \A i \in 0..(INTARRAYLEAFSIZE - 2) :
             /\ LeafRidPage(pages[p], i) = 0
                   => LeafRidPage(pages[p], i + 1) = 0
             /\ LeafRidPage(pages[p], i + 1) # 0
                   => LeafKey(pages[p], i) <= LeafKey(pages[p], i + 1)

\* C5 witness: after a split, a leaf holds a later insert in front of an
\* earlier one, so an insert has shifted the entries of a leaf.
C5_Witness ==
    /\ Len(pages) >= 4
    /\ \E p \in 1..Len(pages) :
          /\ IsLeafPage(p)
          /\ LeafCountFrom(pages[p], 0) >= 2
          /\ LeafRidPage(pages[p], 0) > LeafRidPage(pages[p], 1)
          /\ LeafKey(pages[p], 0) < LeafKey(pages[p], 1)

\* The RecordIds a scan with the bounds of scanLog is to deliver: those of
\* the inserted pairs whose key meets both bounds.
InRangeRids(log) ==
    { inserted[i].rid :
        i \in { x \in 1..Len(inserted) :
                  InRange(inserted[x].key, log.low, log.lop, log.high,
                          log.hop) } }

\* The key a RecordId was inserted with (0: it was never inserted).
KeyOfRid(rid) ==
    IF rid.page_number \in 1..Len(inserted)
       /\ inserted[rid.page_number].rid = rid
    THEN inserted[rid.page_number].key
    ELSE 0

\* C2: the records startScan and the scanNext calls up to
\* IndexScanCompleted deliver are exactly the inserted pairs whose key meets
\* both bounds, each once, in ascending key order.
C2_ScanExactness ==
    (scanLog.active /\ scanLog.done) =>
       /\ Len(scanLog.got) = Cardinality(InRangeRids(scanLog))
       /\ { scanLog.got[i] : i \in 1..Len(scanLog.got) } = InRangeRids(scanLog)
       /\ \A i \in 1..(Len(scanLog.got) - 1) :
             KeyOfRid(scanLog.got[i]) <= KeyOfRid(scanLog.got[i + 1])

\* C6: startScan with valid operators and low <= high raises
\* NoSuchKeyFound if and only if no inserted key meets both bounds.
C6_NoSuchKeyIffNoneInRange ==
    (last.op = "startScan" /\ last.res \in {"none", "NoSuchKeyFound"}) =>
       (last.res = "NoSuchKeyFound"
          <=> ~\E i \in 1..Len(inserted) :
                 InRange(inserted[i].key, lowValInt, lowOp, highValInt,
                         highOp))

\* C7: scanNext raises IndexScanCompleted only after the last record in
\* range has been returned by a call that returned normally.
C7_CompletedOnlyAfterLast ==
    (last.op = "scanNext" /\ last.res = "IndexScanCompleted"
       /\ scanLog.active) =>
       \A rid \in InRangeRids(scanLog) :
          \E i \in 1..Len(scanLog.got) : scanLog.got[i] = rid

\* C8: a scanNext that returns delivers an entry whose key meets both
\* bounds, and a scanNext that raises IndexScanCompleted leaves the
\* caller's RecordId as it was.
C8_YieldIffInRange ==
    (last.op = "scanNext" /\ scanLog.active) =>
       /\ last.res = "none" =>
             InRange(last.key, scanLog.low, scanLog.lop, scanLog.high,
                     scanLog.hop)
       /\ last.res = "IndexScanCompleted" => outRid = last.before

\* C9: between top-level operations exactly one page, a leaf, is pinned
\* while a scan is active, and none otherwise.
C9_PinDiscipline ==
    IF scanExecuting
    THEN /\ PinnedTotal = 1
         /\ \A p \in 1..Len(pages) : pinCnt[p] > 0 => IsLeafPage(p)
    ELSE PinnedTotal = 0

\* C10: ending a scan unpins its leaf: no page is pinned after endScan, and
\* only the leaf of the new scan after a startScan.
C10_EndScanUnpins ==
    /\ (last.op = "endScan" /\ last.res = "none") => PinnedTotal = 0
    /\ (last.op = "startScan" /\ last.res = "none") => PinnedTotal = 1

\* C11: startScan raises BadOpcodes whenever lowOp is not GT/GTE or highOp
\* is not LT/LTE, and BadScanrange whenever the operators are valid and the
\* low value exceeds the high value; a call that raises either has read
\* and pinned no page and has left the position of a scan in progress alone.
C11_BadArgumentsRaiseBeforeDescent ==
    [][last'.op = "startScan" =>
         LET badOps == \/ lowOp' \notin {"GT", "GTE"}
                       \/ highOp' \notin {"LT", "LTE"}
         IN  /\ badOps => last'.res = "BadOpcodes"
             /\ (~badOps /\ lowValInt' > highValInt')
                   => last'.res = "BadScanrange"
             /\ last'.res \in {"BadOpcodes", "BadScanrange"}
                   => /\ badOps \/ lowValInt' > highValInt'
                      /\ UNCHANGED <<pages, pinCnt, badUnpin, scanExecuting,
                                     nextEntry, currentPageNum,
                                     currentPageData>>]_vars

\* A startScan with a reversed range raised BadScanrange while an earlier
\* scan was holding its leaf.
C11_Witness ==
    /\ last.op = "startScan"
    /\ last.res = "BadScanrange"
    /\ lowValInt > highValInt
    /\ scanExecuting
    /\ pinCnt[currentPageNum] = 1

\* C12: scanNext and endScan raise ScanNotInitialized, and touch no pin,
\* whenever the caller has no scan in progress (no startScan yet, the last
\* startScan raised from its search, or endScan was called); an endScan
\* that directly follows an endScan raises ScanNotInitialized.
C12_NoScanRaisesNotInitialized ==
    [][/\ (last'.op \in {"scanNext", "endScan"} /\ ~scanLog.active)
            => /\ last'.res = "ScanNotInitialized"
               /\ UNCHANGED <<pages, pinCnt, scanExecuting>>
       /\ (last.op = "endScan" /\ last'.op = "endScan")
            => last'.res = "ScanNotInitialized"]_vars

\* A second endScan in a row raised, after a scan that had been started.
C12_Witness ==
    /\ last.op = "endScan"
    /\ last.res = "ScanNotInitialized"
    /\ ~scanExecuting
    /\ scans > 0
    /\ PinnedTotal > 0

C14_MismatchRaisesBadIndexInfo ==
    (last.op = "BTreeIndex" /\ opens > 0
     /\ attrTypeParm # Word(disk[1], MetaTypeOff))
       => /\ last.res = "BadIndexInfo"
          /\ Word(pages[1], MetaTypeOff) = Word(disk[1], MetaTypeOff)

\* C16: destroying the index while a scan is executing raises nothing and
\* leaves no page of the index pinned.
C16_TeardownUnpinsScan ==
    [][(last'.op = "~BTreeIndex" /\ scanExecuting)
          => (last'.res = "none" /\ PinnedTotal' = 0)]_vars

\* C15: when insertEntry splits the root, the new root is a fresh non-leaf
\* page with exactly one key, pageNoArray[0] the old root and pageNoArray[1]
\* the fresh sibling of the old root; over a leaf root it has level 1 and
\* its key is the first key of the sibling, over a non-leaf root level 0.
\* The metadata page holds the root page number after every insertEntry,
\* and an insertEntry that does not split the root (a leaf root that was
\* not full, a non-leaf root that did not give up its upper half) leaves
\* rootPageNum unchanged.
C15_RootSplitGrowsTree ==
    [][last'.op = "insertEntry" =>
         LET old == rootPageNum
             new == rootPageNum'
             wasLeaf == Level(pages[old]) = -1
             rootSplit ==
                 IF wasLeaf
                 THEN LeafCountFrom(pages[old], 0) = INTARRAYLEAFSIZE
                 ELSE /\ NonLeafPid(pages[old], INTARRAYNONLEAFSIZE) # 0
                      /\ NonLeafPid(pages'[old], INTARRAYNONLEAFSIZE) = 0
         IN  /\ Word(pages'[headerPageNum], MetaRootOff) = new
             /\ (last'.res = "none") => (rootSplit <=> new # old)
             /\ new # old =>
                   LET pw == pages'[new]
                       sib == NonLeafPid(pw, 1)
                   IN  /\ new \in (Len(pages) + 1)..Len(pages')
                       /\ sib \in (Len(pages) + 1)..Len(pages')
                       /\ sib # new
                       /\ Level(pw) = (IF wasLeaf THEN 1 ELSE 0)
                       /\ NonLeafCountFrom(pw, 0) = 1
                       /\ NonLeafPid(pw, 0) = old
                       /\ wasLeaf =>
                             /\ Level(pages'[sib]) = -1
                             /\ RightSib(pages'[old]) = sib
                             /\ NonLeafKey(pw, 0) = LeafKey(pages'[sib], 0)]_vars

\* A non-leaf root has split: the root is a level 0 node with one key over
\* the old root and its sibling.
C15_Witness ==
    /\ last.op = "insertEntry"
    /\ last.res = "none"
    /\ Level(pages[rootPageNum]) = 0
    /\ NonLeafCountFrom(pages[rootPageNum], 0) = 1
    /\ Word(pages[headerPageNum], MetaRootOff) = rootPageNum

\* The sorted merge of the entries of a leaf with a new entry e, e after
\* the entries of equal key.
MergedLeaf(pw, e) ==
    LET old == LeafEntries(pw)
        n == Cardinality({ i \in 1..Len(old) : old[i].key <= e.key })
    IN  SubSeq(old, 1, n) \o <<e>> \o SubSeq(old, n + 1, Len(old))

\* C17: when insertEntry of (k, rid) splits a full leaf N, then afterwards N
\* holds entries [0 .. L/2-1] of the sorted merge of its old entries with
\* (k, rid), the new leaf N' holds entries [L/2 .. L] of the merge, and
\* the key stored left of N' in a parent is the first key of N'.
C17_LeafSplitDistribution ==
    [][last'.op = "insertEntry" =>
         \A N \in 1..Len(pages) :
            LET N2 == RightSib(pages'[N])
                merged == MergedLeaf(pages[N], inserted'[Len(inserted')])
                half == INTARRAYLEAFSIZE \div 2
            IN  (/\ Level(pages[N]) = -1
                 /\ LeafCountFrom(pages[N], 0) = INTARRAYLEAFSIZE
                 /\ N2 \in (Len(pages) + 1)..Len(pages'))
                  => /\ LeafEntries(pages'[N]) = SubSeq(merged, 1, half)
                     /\ LeafEntries(pages'[N2])
                          = SubSeq(merged, half + 1, INTARRAYLEAFSIZE + 1)
                     /\ \A q \in 1..Len(pages'),
                           i \in 0..(INTARRAYNONLEAFSIZE - 1) :
                           (/\ q # headerPageNum
                            /\ Level(pages'[q]) # -1
                            /\ i < NonLeafCountFrom(pages'[q], 0)
                            /\ NonLeafPid(pages'[q], i + 1) = N2)
                             => NonLeafKey(pages'[q], i)
                                  = LeafKey(pages'[N2], 0)]_vars

\* The keyArray and the pageNoArray of a non-leaf node, as sequences.
NonLeafKeys(pw, n) == [i \in 1..n |-> NonLeafKey(pw, i - 1)]
NonLeafPids(pw, n) == [i \in 1..n |-> NonLeafPid(pw, i - 1)]

\* C18: when a pair (k, p) promoted from a split child is inserted into a
\* full non-leaf node N, then for the merge of N's keys and children with
\* (k, p), k at its sorted position and p immediately right of it, N keeps
\* merged keys [0 .. M/2-1] and children [0 .. M/2], the new node N' holds
\* merged keys [M/2+1 .. M] and children [M/2+1 .. M+1], and merged key
\* M/2 is in neither.  p is the page the split of the child allocated and
\* N' the page allocated next.
C18_NonLeafSplitDistribution ==
    [][last'.op = "insertEntry" =>
         \A N \in 1..Len(pages) :
            (/\ N # headerPageNum
             /\ Level(pages[N]) # -1
             /\ NonLeafPid(pages[N], INTARRAYNONLEAFSIZE) # 0
             /\ NonLeafPid(pages'[N], INTARRAYNONLEAFSIZE) = 0)
              => \E N2 \in (Len(pages) + 2)..Len(pages'),
                    k \in Keys, pos \in 0..INTARRAYNONLEAFSIZE :
                    LET M == INTARRAYNONLEAFSIZE
                        h == M \div 2
                        p == N2 - 1
                        oldK == NonLeafKeys(pages[N], M)
                        oldP == NonLeafPids(pages[N], M + 1)
                        mergedK == SubSeq(oldK, 1, pos) \o <<k>>
                                     \o SubSeq(oldK, pos + 1, M)
                        mergedP == SubSeq(oldP, 1, pos + 1) \o <<p>>
                                     \o SubSeq(oldP, pos + 2, M + 1)
                    IN  /\ \A i \in 1..M : mergedK[i] <= mergedK[i + 1]
                        /\ NonLeafCountFrom(pages'[N], 0) = h
                        /\ NonLeafKeys(pages'[N], h) = SubSeq(mergedK, 1, h)
                        /\ NonLeafPids(pages'[N], h + 1)
                             = SubSeq(mergedP, 1, h + 1)
                        /\ NonLeafCountFrom(pages'[N2], 0) = M - h
                        /\ NonLeafKeys(pages'[N2], M - h)
                             = SubSeq(mergedK, h + 2, M + 1)
                        /\ NonLeafPids(pages'[N2], M - h + 1)
                             = SubSeq(mergedP, h + 2, M + 2)]_vars

\* The non-null children of a non-leaf page: pageNoArray[0 .. number of keys].
NonNullChildren(q) ==
    { NonLeafPid(pages[q], i) : i \in 0..NonLeafCountFrom(pages[q], 0) }

\* C19: after any sequence of insertEntry calls every non-leaf node has
\* level 1 exactly if all its non-null children are leaves and level 0
\* exactly if all of them are non-leaf nodes, and no non-leaf node has
\* itself, the header or a number that is no page as a child.
C19_LevelMatchesChildren ==
    \A q \in 1..Len(pages) :
       IsNonLeafPage(q) =>
          /\ \A ch \in NonNullChildren(q) :
                IsPage(ch) /\ ch # q /\ ch # headerPageNum
          /\ Level(pages[q]) = 1
                <=> \A ch \in NonNullChildren(q) : IsLeafPage(ch)
          /\ Level(pages[q]) = 0
                <=> \A ch \in NonNullChildren(q) : IsNonLeafPage(ch)

\* The pages met following rightSibPageNo from page p, up to the first
\* number that is no page.
RECURSIVE SibPagesFrom(_, _)
SibPagesFrom(p, fuel) ==
    IF ~IsPage(p) \/ fuel = 0 THEN <<>>
    ELSE <<p>> \o SibPagesFrom(RightSib(pages[p]), fuel - 1)

\* C20: after any sequence of insertEntry calls, following rightSibPageNo
\* from the initial root leaf (page 2) meets every leaf page, meets no page
\* twice and ends at a page whose rightSibPageNo is 0; and an insertEntry
\* changes the rightSibPageNo of a leaf only by putting a fresh leaf
\* between it and its old right sibling.
C20_SiblingChainComplete ==
    /\ [](LET chain == SibPagesFrom(2, Len(pages) + 1)
          IN  /\ \A i, j \in 1..Len(chain) : chain[i] = chain[j] => i = j
              /\ RightSib(pages[chain[Len(chain)]]) = 0
              /\ \A p \in 1..Len(pages) :
                    IsLeafPage(p) => \E i \in 1..Len(chain) : chain[i] = p)
    /\ [][\A N \in 1..Len(pages) :
            LET N2 == RightSib(pages'[N])
            IN  Level(pages[N]) = -1 =>
                  \/ N2 = RightSib(pages[N])
                  \/ /\ N2 \in (Len(pages) + 1)..Len(pages')
                     /\ RightSib(pages'[N2]) = RightSib(pages[N])]_vars

\* The least i in [0, M] such that pageNoArray[i+1] is null or the key is at
\* most keyArray[i]; M when no slot of the node is such.
LeastChildIndex(pw, key) ==
    LET stop == { i \in 0..(INTARRAYNONLEAFSIZE - 1) :
                    NonLeafPid(pw, i + 1) = 0 \/ key <= NonLeafKey(pw, i) }
    IN  IF stop = {} THEN INTARRAYNONLEAFSIZE
        ELSE CHOOSE i \in stop : \A j \in stop : i <= j

\* The leaf a descent by LeastChildIndex from page p ends in (0: none).
RECURSIVE LeastDescent(_, _, _)
LeastDescent(p, key, fuel) ==
    IF ~IsPage(p) \/ fuel = 0 THEN 0
    ELSE IF Level(pages[p]) = -1 THEN p
    ELSE LeastDescent(NonLeafPid(pages[p], LeastChildIndex(pages[p], key)),
                      key, fuel - 1)

C22_InsertPinsPaired ==
    (last.op = "insertEntry" /\ ~scanExecuting) =>
       /\ \A p \in 1..Len(pages) : pinCnt[p] = 0
       /\ ~badUnpin

\* An insert that split a leaf and a non-leaf node and grew a new root
\* over a non-leaf root has returned.
C22_Witness ==
    /\ last.op = "insertEntry"
    /\ last.res = "none"
    /\ ~scanExecuting
    /\ IsNonLeafPage(rootPageNum)
    /\ IsNonLeafPage(NonLeafPid(pages[rootPageNum], 0))
    /\ PinnedTotal = 0

\* The entries es with the pair e put in front of the first entry whose key
\* is greater than the key of e, at the end when there is none.
PlacedInOrder(es, e) ==
    LET after == { i \in 1..Len(es) : es[i].key > e.key }
        at    == IF after = {} THEN Len(es) + 1
                 ELSE CHOOSE i \in after : \A j \in after : i <= j
    IN  SubSeq(es, 1, at - 1) \o <<e>> \o SubSeq(es, at, Len(es))

\* C23: an insertEntry whose target leaf has a free slot changes that leaf
\* only: its entries are the previous ones in their order with the new
\* pair at the smallest index whose slot is empty or whose key is greater
\* than the key (after the equal keys); no page is allocated, and no other
\* page, sibling pointer, level or root page number changes.
C23_InsertWithoutSplitIsLocal ==
    [][(last'.op = "insertEntry" /\ Len(inserted') = Len(inserted) + 1) =>
         LET e    == inserted'[Len(inserted')]
             leaf == LeastDescent(rootPageNum, e.key, Len(pages))
         IN  (leaf # 0 /\ LeafCountFrom(pages[leaf], 0) < INTARRAYLEAFSIZE) =>
                /\ last'.res = "none"
                /\ Len(pages') = Len(pages)
                /\ \A p \in 1..Len(pages) : p # leaf => pages'[p] = pages[p]
                /\ rootPageNum' = rootPageNum
                /\ headerPageNum' = headerPageNum
                /\ RightSib(pages'[leaf]) = RightSib(pages[leaf])
                /\ Level(pages'[leaf]) = Level(pages[leaf])
                /\ LeafEntries(pages'[leaf])
                      = PlacedInOrder(LeafEntries(pages[leaf]), e)]_vars

\* Under a non-leaf root, a leaf that the last insert did not allocate
\* holds the pair of that insert in front of an earlier pair of a greater
\* key: the insert shifted the entries of a leaf that had a free slot.
C23_Witness ==
    /\ last.op = "insertEntry"
    /\ last.res = "none"
    /\ IsNonLeafPage(rootPageNum)
    /\ \E p \in 1..(Len(pages) - 2) :
          /\ IsLeafPage(p)
          /\ LeafCountFrom(pages[p], 0) = 2
          /\ LeafRid(pages[p], 0) = inserted[Len(inserted)].rid
          /\ LeafKey(pages[p], 0) = inserted[Len(inserted)].key
          /\ LeafKey(pages[p], 1) > LeafKey(pages[p], 0)

\* C24: a startScan that raises BadOpcodes or BadScanRange while a scan is
\* executing leaves that scan as it was: its low and high values, its
\* operators, its current page, nextEntry and scanExecuting.
C24_RejectedStartScanKeepsScan ==
    [][(/\ scanExecuting
        /\ last'.op = "startScan"
        /\ last'.res \in {"BadOpcodes", "BadScanrange"}) =>
          UNCHANGED <<lowValInt, highValInt, lowOp, highOp, currentPageNum,
                      currentPageData, nextEntry, scanExecuting>>]_vars

\* C25: over startScan, scanNext and endScan calls no page is unpinned at
\* pin count zero and scanNext returns no record read from a page that is
\* not pinned; a scanNext after the one that raised IndexScanCompleted
\* neither unpins nor returns a record.
C25_ScanUnpinsPinnedOnly ==
    [][/\ (last'.op \in {"startScan", "scanNext", "endScan"}) => ~badUnpin'
       /\ (scanExecuting /\ last'.op = "scanNext") =>
             /\ last'.res = "none" => pinCnt[currentPageNum] > 0
             /\ (scanLog.active /\ scanLog.done) =>
                   /\ pinCnt' = pinCnt
                   /\ last'.res # "none"
                   /\ outRid' = outRid]_vars

\* The child slots <<q, i>> of the non-leaf nodes under the root that hold
\* page p.
ChildSlotsOf(p) ==
    { s \in { q \in Subtree(rootPageNum) : IsNonLeafPage(q) }
             \X (0..INTARRAYNONLEAFSIZE) :
        /\ s[2] <= NonLeafCountFrom(pages[s[1]], 0)
        /\ NonLeafPid(pages[s[1]], s[2]) = p }

\* C26: after any sequence of insertEntry calls every leaf on the sibling
\* chain from the initial root leaf (page 2) is reachable from the root by
\* child pointers, and every node page other than the root is held by
\* exactly one child slot of the non-leaf nodes.
C26_ChildPointersFormTree ==
    /\ \A i \in 1..Len(SibPagesFrom(2, Len(pages) + 1)) :
          SibPagesFrom(2, Len(pages) + 1)[i] \in Subtree(rootPageNum)
    /\ \A p \in 1..Len(pages) :
          (p # headerPageNum /\ p # rootPageNum) =>
             Cardinality(ChildSlotsOf(p)) = 1

\* The indexes of ridArray the loop of insertToLeaf that looks for a free
\* slot reads: ridArray[next] is read before next is compared with the
\* size of the array, for every next up to the one the loop ends at.
LeafNextReads(pw) == 0..LeafNext(pw, 0)

\* The indexes of pageNoArray the loop of findNonLeafIndex reads:
\* pageNoArray[idx+1] is read before idx is compared with the size of the
\* array, for every idx up to the one the loop ends at.
findNonLeafIndexReads(pw, key) ==
    { idx + 1 : idx \in 0..findNonLeafIndex(pw, key) }

\* The indexes of node->pageNoArray the distribution loop of
\* splitNonLeafNode writes, which are the indexes of tempPid it reads.
splitNonLeafNodeIndexes ==
    (INTARRAYNONLEAFSIZE \div 2 + 1)..(INTARRAYNONLEAFSIZE + 1)

\* The non-leaf pages the descent for key passes from page p.
RECURSIVE DescentNodes(_, _, _)
DescentNodes(p, key, fuel) ==
    IF ~IsNonLeafPage(p) \/ fuel = 0 THEN {}
    ELSE {p} \cup DescentNodes(NonLeafPid(pages[p],
                                          findNonLeafIndex(pages[p], key)),
                               key, fuel - 1)

\* C27: during an insertEntry every index into an array of a node lies in
\* the bounds the array is declared with: 0..L-1 for the arrays of a leaf,
\* 0..M for pageNoArray of a non-leaf node, on the descent as in a split,
\* and 0..M+1 for the child pointers gathered for the split of a non-leaf
\* node.
C27_ArrayAccessesInBounds ==
    [][(last'.op = "insertEntry" /\ Len(inserted') = Len(inserted) + 1) =>
         LET key  == inserted'[Len(inserted')].key
             leaf == LeastDescent(rootPageNum, key, Len(pages))
         IN  /\ leaf # 0 =>
                   \A i \in LeafNextReads(pages[leaf]) :
                      i <= INTARRAYLEAFSIZE - 1
             /\ \A q \in DescentNodes(rootPageNum, key, Len(pages)) :
                   \A i \in findNonLeafIndexReads(pages[q], key) :
                      i <= INTARRAYNONLEAFSIZE
             /\ (\E p \in (Len(pages) + 1)..Len(pages') :
                    p # rootPageNum' /\ Level(pages'[p]) # -1) =>
                   \A i \in splitNonLeafNodeIndexes :
                      i <= INTARRAYNONLEAFSIZE]_vars

\* The pages on the sibling chain from page p, p included.
ChainPagesFrom(p) ==
    { SibPagesFrom(p, Len(pages) + 1)[i] :
        i \in 1..Len(SibPagesFrom(p, Len(pages) + 1)) }

\* C28: after a successful startScan every scanNext either raises or moves
\* the position of the scan strictly forward, to the next slot of the leaf
\* or to the first slot of its right sibling, from which the sibling chain
\* does not lead back; and it returns at most as many records as entries
\* were stored: the scan raises within that number plus one calls.
C28_ScanTerminates ==
    [][(/\ scanExecuting /\ scanLog.active /\ ~scanLog.done
        /\ last'.op = "scanNext") =>
          \/ last'.res = "IndexScanCompleted"
          \/ /\ last'.res = "none"
             /\ \/ /\ currentPageNum' = currentPageNum
                   /\ nextEntry' = nextEntry + 1
                \/ /\ currentPageNum' = RightSib(pages[currentPageNum])
                   /\ currentPageNum \notin ChainPagesFrom(currentPageNum')
                   /\ nextEntry' = 0
             /\ Len(scanLog'.got) <= Len(inserted)]_vars

====
